---------------------------- MODULE Spec2Model ----------------------------
(***************************************************************************)
(* BatCheck: SmartBMS monitor.                                             *)
(*                                                                         *)
(* Two programs share the framing/decoding code:                           *)
(*   - smartbms_dual_logger.py: handle_notify reassembles frames out of    *)
(*     fragmented notifications and appends cell voltages to a CSV file;   *)
(*   - smartbms_gui.py: poll_monitor runs one polling session per device   *)
(*     on an asyncio loop in a background thread, update_gui reads the     *)
(*     shared device_data mapping from the Tk thread.                      *)
(*                                                                         *)
(* Bytes are integers 0..255, byte strings are sequences (1-based: Python  *)
(* index i is position i+1).  Voltages are kept in millivolts, that is the *)
(* integer the code divides by 1000.0; currents likewise in raw units.     *)
(***************************************************************************)
EXTENDS Integers, Sequences, FiniteSets, TLC

\* ------------------------------------------------------------------------
\* Protocol bytes
\* ------------------------------------------------------------------------

\* 0xDD, the start marker searched by buf.index(0xDD)
START_MARKER == 221

\* 0x77, the end marker searched by buf.index(0x77, start)
END_MARKER == 119

\* packet[1] of a cell-voltage response
TYPE_CELLS == 4

\* packet[1] of a status response
TYPE_STATUS == 3

\* the two devices of the devices mapping
devices == {"akku-1", "akku-2"}

\* ------------------------------------------------------------------------
\* Python helpers
\* ------------------------------------------------------------------------

\* buf.index(b, start): the first position >= from holding b, 0 for ValueError
RECURSIVE IndexFrom(_, _, _)
IndexFrom(buf, b, from) ==
    IF from > Len(buf) THEN 0
    ELSE IF buf[from] = b THEN from
    ELSE IndexFrom(buf, b, from + 1)

\* Mutant of PayloadSlice: packet[3:-3], the header taken as three bytes.
PayloadSliceShortHeader(packet) == SubSeq(packet, 4, Len(packet) - 3)

\* packet[4:-3]: Python positions 4 .. len-4, empty when the slice is inverted
PayloadSlice(packet) == SubSeq(packet, 5, Len(packet) - 3)

\* Mutant of BigEndian: int.from_bytes(b, 'little').
LittleEndian(b) ==
    IF Len(b) = 0 THEN 0
    ELSE IF Len(b) = 1 THEN b[1]
    ELSE b[1] + 256 * b[2]

\* int.from_bytes(b, 'big') of a slice of at most two bytes
BigEndian(b) ==
    IF Len(b) = 0 THEN 0
    ELSE IF Len(b) = 1 THEN b[1]
    ELSE 256 * b[1] + b[2]

\* int.from_bytes(b, 'big', signed=True) of a slice of at most two bytes
BigEndianSigned(b) ==
    IF Len(b) = 0 THEN 0
    ELSE IF Len(b) = 1 THEN (IF b[1] >= 128 THEN b[1] - 256 ELSE b[1])
    ELSE IF 256 * b[1] + b[2] >= 32768 THEN 256 * b[1] + b[2] - 65536
    ELSE 256 * b[1] + b[2]

\* sum(voltages)
RECURSIVE SumSeq(_)
SumSeq(s) == IF s = <<>> THEN 0 ELSE s[1] + SumSeq(Tail(s))

\* [0.0] * n, the empty list for n <= 0
Zeros(n) == [i \in 1..n |-> 0]

\* ------------------------------------------------------------------------
\* smartbms_dual_logger.py: decoding
\* ------------------------------------------------------------------------

\* the for-loop of parse_cell_voltages: i is the Python index into data
RECURSIVE CellLoop(_, _, _)
CellLoop(data, i, voltages) ==
    IF i >= Len(data) THEN voltages
    ELSE IF i + 1 >= Len(data) THEN voltages
    ELSE CellLoop(data, i + 2, Append(voltages, BigEndian(SubSeq(data, i + 1, i + 2))))


\* parse_cell_voltages raises IndexError at packet[1] for the one-byte packet DD
parse_cell_voltages_raises(packet) ==
    Len(packet) = 1 /\ packet[1] = START_MARKER

\* parse_cell_voltages (logger): the list of cell voltages in mV, <<>> for []
parse_cell_voltages(packet) ==
    IF Len(packet) < 2 THEN <<>>
    ELSE IF packet[1] # START_MARKER \/ packet[2] # TYPE_CELLS
            \/ packet[Len(packet)] # END_MARKER THEN <<>>
    ELSE CellLoop(PayloadSlice(packet), 0, <<>>)

\* the value parse_status returns for None
NoStatus == [ok |-> FALSE]

\* parse_status (logger): offsets 0,2,4,6,8 and SoC at data[21], scale 1/100
lg_parse_status(packet) ==
    IF Len(packet) < 2 THEN NoStatus
    ELSE IF packet[1] # START_MARKER \/ packet[2] # TYPE_STATUS
            \/ packet[Len(packet)] # END_MARKER THEN NoStatus
    ELSE LET data == PayloadSlice(packet) IN
         IF Len(data) < 22 THEN NoStatus
         ELSE [ok |-> TRUE,
               Spannung |-> BigEndian(SubSeq(data, 1, 2)),
               Strom |-> BigEndianSigned(SubSeq(data, 3, 4)),
               RestAh |-> BigEndian(SubSeq(data, 5, 6)),
               NennAh |-> BigEndian(SubSeq(data, 7, 8)),
               Zyklen |-> BigEndian(SubSeq(data, 9, 10)),
               SoC |-> data[22]]


\* ------------------------------------------------------------------------
\* smartbms_dual_logger.py: handle_notify
\* ------------------------------------------------------------------------

\* What one call of handle_notify leaves behind: the device's buffer, the
\* records it decoded (what it prints), the CSV rows it appended (the
\* voltages of a row; the HH:MM:SS column is left out), the packets it cut out
\* of the buffer (the [RAW] lines) and whether the call ended by raising out
\* of open()/writerow().
HandlerResult(buf, records, rows, packets, raised) ==
    [buf |-> buf, records |-> records, rows |-> rows, packets |-> packets,
     raised |-> raised]

\* the body of handle_notify after a packet was cut out (lines 100-114)
RECURSIVE Drain(_, _, _, _, _)
Decode(packet, rest, records, rows, packets, csv_ok) ==
    IF packet[2] = TYPE_CELLS
    THEN LET voltages == parse_cell_voltages(packet) IN
         IF voltages # <<>>
         THEN LET printed == Append(records, [kind |-> "cells",
                                              voltages |-> voltages,
                                              total |-> SumSeq(voltages)]) IN
              IF csv_ok
              THEN Drain(rest, printed, Append(rows, voltages), packets, csv_ok)
              ELSE HandlerResult(rest, printed, rows, packets, TRUE)
         ELSE Drain(rest, records, rows, packets, csv_ok)
    ELSE IF packet[2] = TYPE_STATUS
    THEN LET status == lg_parse_status(packet) IN
         IF status.ok
         THEN Drain(rest, Append(records, [kind |-> "status", status |-> status]),
                    rows, packets, csv_ok)
         ELSE Drain(rest, records, rows, packets, csv_ok)
    ELSE Drain(rest, records, rows, packets, csv_ok)

\* Mutant of Drain: the packet is cut from the start of the buffer, so the
\* bytes in front of the start marker stay in it.
RECURSIVE DrainKeepsGarbage(_, _, _, _, _)
DrainKeepsGarbage(buf, records, rows, packets, csv_ok) ==
    IF Len(buf) < 2 THEN HandlerResult(buf, records, rows, packets, FALSE)
    ELSE LET start == IndexFrom(buf, START_MARKER, 1) IN
         IF start = 0 THEN HandlerResult(buf, records, rows, packets, FALSE)
         ELSE LET end == IndexFrom(buf, END_MARKER, start) IN
              IF end = 0 THEN HandlerResult(buf, records, rows, packets, FALSE)
              ELSE Decode(SubSeq(buf, 1, end), SubSeq(buf, end + 1, Len(buf)),
                          records, rows, Append(packets, SubSeq(buf, 1, end)), csv_ok)

\* Mutant of Drain: the loop is left while the buffer is shorter than a
\* header.
RECURSIVE DrainSkipsShortBuffer(_, _, _, _, _)
DrainSkipsShortBuffer(buf, records, rows, packets, csv_ok) ==
    IF Len(buf) < 4 THEN HandlerResult(buf, records, rows, packets, FALSE)
    ELSE LET start == IndexFrom(buf, START_MARKER, 1) IN
         IF start = 0 THEN HandlerResult(buf, records, rows, packets, FALSE)
         ELSE LET end == IndexFrom(buf, END_MARKER, start) IN
              IF end = 0 THEN HandlerResult(buf, records, rows, packets, FALSE)
              ELSE Decode(SubSeq(buf, start, end), SubSeq(buf, end + 1, Len(buf)),
                          records, rows, Append(packets, SubSeq(buf, start, end)), csv_ok)

\* the while-loop of handle_notify (lines 88-98), then Decode
Drain(buf, records, rows, packets, csv_ok) ==
    IF Len(buf) < 2 THEN HandlerResult(buf, records, rows, packets, FALSE)
    ELSE LET start == IndexFrom(buf, START_MARKER, 1) IN
         IF start = 0 THEN HandlerResult(buf, records, rows, packets, FALSE)
         ELSE LET end == IndexFrom(buf, END_MARKER, start) IN
              IF end = 0 THEN HandlerResult(buf, records, rows, packets, FALSE)
              ELSE Decode(SubSeq(buf, start, end), SubSeq(buf, end + 1, Len(buf)),
                          records, rows, Append(packets, SubSeq(buf, start, end)), csv_ok)

\* handle_notify(name, data) on the state (buf, records, rows) of one device;
\* the packets of the result are those of this call
handle_notify(buf, records, rows, data, csv_ok) ==
    Drain(buf \o data, records, rows, <<>>, csv_ok)

\* ------------------------------------------------------------------------
\* smartbms_gui.py: decoding
\* ------------------------------------------------------------------------

\* the for-loop of the GUI's parse_cell_voltages
RECURSIVE gui_CellLoop(_, _, _)
gui_CellLoop(data, i, voltages) ==
    IF i >= Len(data) THEN voltages
    ELSE IF i + 1 >= Len(data) THEN voltages
    ELSE gui_CellLoop(data, i + 2,
                      Append(voltages, BigEndian(SubSeq(data, i + 1, i + 2))))

\* parse_cell_voltages (GUI), the same code as the logger's
gui_parse_cell_voltages(packet) ==
    IF Len(packet) < 2 THEN <<>>
    ELSE IF packet[1] # START_MARKER \/ packet[2] # TYPE_CELLS
            \/ packet[Len(packet)] # END_MARKER THEN <<>>
    ELSE gui_CellLoop(PayloadSlice(packet), 0, <<>>)

\* parse_status (GUI): SoC at data[8], temperatures data[9]+40 and data[10]+40;
\* an IndexError on a short payload is caught and gives None
gui_parse_status(packet) ==
    IF Len(packet) < 2 THEN NoStatus
    ELSE IF packet[1] # START_MARKER \/ packet[2] # TYPE_STATUS
            \/ packet[Len(packet)] # END_MARKER THEN NoStatus
    ELSE LET data == PayloadSlice(packet) IN
         IF Len(data) < 11 THEN NoStatus
         ELSE [ok |-> TRUE,
               spannung |-> BigEndian(SubSeq(data, 1, 2)),
               strom |-> BigEndianSigned(SubSeq(data, 3, 4)),
               rest_ah |-> BigEndian(SubSeq(data, 5, 6)),
               nenn_ah |-> BigEndian(SubSeq(data, 7, 8)),
               soc |-> data[9],
               temp1 |-> data[10] + 40,
               temp2 |-> data[11] + 40]

\* extract_packet(buf, type_byte): the packet returned (<<>> for None) and the
\* buffer as the call leaves it (del buf[:end+1] only when the type matches)
extract_packet(buf, type_byte) ==
    LET start == IndexFrom(buf, START_MARKER, 1) IN
    IF start = 0 THEN [packet |-> <<>>, buf |-> buf]
    ELSE LET end == IndexFrom(buf, END_MARKER, start) IN
         IF end = 0 THEN [packet |-> <<>>, buf |-> buf]
         ELSE IF buf[start + 1] = type_byte
              THEN [packet |-> SubSeq(buf, start, end),
                    buf |-> SubSeq(buf, end + 1, Len(buf))]
              ELSE [packet |-> <<>>, buf |-> buf]


\* ------------------------------------------------------------------------
\* State
\* ------------------------------------------------------------------------

VARIABLES
    \* the notify channel of one device: what it sends and how much arrived
    tx,             \* [name, garbage, frame, trailer, cells]: the bytes sent
    fed,            \* how many bytes of the stream the callbacks have received
    \* smartbms_dual_logger.py
    lg_buffer,      \* notify_buffer[name]
    lg_records,     \* per device, the records handle_notify decoded, in order
    lg_rows,        \* per device, the rows appended to csv_paths[name]
    lg_packets,     \* per device, the packets handle_notify cut out, in order
    lg_csv_ok,      \* whether open(csv_paths[name], "a") succeeds
    lg_raised,      \* whether the last handle_notify call raised
    lg_pc,          \* per device, where its monitor_bms coroutine is suspended
    parsed,         \* what parse_cell_voltages made of the frame, called on it directly
    \* smartbms_gui.py
    notify_buffer,  \* notify_buffer[name]
    gx,             \* the packet and list a poll step got out of the buffer
    pc,             \* per device, where its poll_monitor coroutine is suspended
    packet,         \* per device, poll_monitor's local packet (lines 130, 148; <<>> for None)
    device_data,    \* device_data[name], the mapping shared with the Tk thread
    csv_file,       \* per device, the number of rows of csv_paths[name], modulo NumRows
    stop_event,     \* stop_event.is_set()
    alive,          \* the process runs (the asyncio thread is a daemon thread)
    clock,          \* per device, the HH:MM:SS its session reads from now()
    link,           \* per device, whether the BLE link answers
    budget,         \* per device, notifications the BMS still sends for a command
    stop_in_sleep,  \* history: the devices whose session slept when stop was set
    rd              \* update_gui: its position and what it has read of one device

frame_vars ==
    <<tx, fed, lg_buffer, lg_records, lg_rows, lg_packets, lg_csv_ok, lg_raised, lg_pc, parsed, gx>>

gui_vars ==
    <<pc, packet, device_data, csv_file, stop_event, alive, clock, link, budget,
      stop_in_sleep, rd>>

vars == <<frame_vars, notify_buffer, gui_vars>>

\* ------------------------------------------------------------------------
\* The byte streams a device sends (bounded)
\* ------------------------------------------------------------------------

\* longest run of bytes in front of the frame
MaxGarbage == 2

\* longest enumerated payload
MaxPayload == 3

\* longest enumerated list of cells to encode
MaxCells == 2

\* longest stream that holds no frame at all
MaxJunk == 4

\* all sequences over S of length at most n
SeqsUpTo(S, n) == UNION {[1..k -> S] : k \in 0..n}

GarbageBytes == {START_MARKER, END_MARKER, 0}

PayloadBytes == {12, END_MARKER}

JunkBytes == {START_MARKER, END_MARKER, TYPE_CELLS, 0}

\* payload lengths of full-size frames: 22 bytes is the shortest status the
\* logger decodes, 32 bytes are 16 cells, 33 bytes leave a trailing odd byte
LongLens == {22, 32, 33}

LongPayloads ==
    {[i \in 1..n |-> IF i % 2 = 1 THEN 12 ELSE lo] : n \in LongLens, lo \in {228, 0}}

\* the two footer bytes in front of the end marker; they are never verified
ChecksumPairs == {<<255, 255>>, <<END_MARKER, 252>>}

\* cell voltages in mV: 3191 = 0x0C77, 3293 = 0x0CDD, 3300 = 0x0CE4, 9999 = 0x270F
CellValues == {0, 3191, 3293, 3300, 9999}

\* the frame layout [DD][type][len][00][payload][checksum:2][77]
BuildFrame(type, payload, cs) ==
    <<START_MARKER, type, Len(payload), 0>> \o payload \o cs \o <<END_MARKER>>

\* two big-endian bytes per cell
RECURSIVE CellBytes(_)
CellBytes(cells) ==
    IF cells = <<>> THEN <<>>
    ELSE <<cells[1] \div 256, cells[1] % 256>> \o CellBytes(Tail(cells))

\* the frame encoded from a list of cell voltages
Encode(cells, cs) == BuildFrame(TYPE_CELLS, CellBytes(cells), cs)

\* DD 04 08 00 0C E4 0C EE 0C DF 0C E9 FF FF 77
ExampleFrame == <<221, 4, 8, 0, 12, 228, 12, 238, 12, 223, 12, 233, 255, 255, 119>>

RawFrames ==
    {BuildFrame(type, payload, cs) :
        type \in {TYPE_CELLS, TYPE_STATUS},
        payload \in SeqsUpTo(PayloadBytes, MaxPayload),
        cs \in ChecksumPairs}
    \cup {ExampleFrame}

\* full-size frames: up to 16 cells, and a status long enough for the logger
LongFrames ==
    {BuildFrame(type, payload, cs) :
        type \in {TYPE_CELLS, TYPE_STATUS}, payload \in LongPayloads, cs \in ChecksumPairs}

Trailers == {<<>>, <<END_MARKER>>, <<START_MARKER, END_MARKER>>}

\* lists of 1..16 cells: every short list, and full-length uniform lists
CellLists ==
    (SeqsUpTo(CellValues, MaxCells) \ {<<>>})
    \cup {[i \in 1..n |-> v] : n \in {15, 16}, v \in CellValues}

\* the whole stream the device sends
Stream == tx.garbage \o tx.frame \o tx.trailer

\* ------------------------------------------------------------------------
\* smartbms_gui.py: the state at import
\* ------------------------------------------------------------------------

\* the stamps a session's clock runs through; 0 stands for "--:--:--"
NumStamps == 2

\* the CSV row count is kept modulo this
NumRows == 2

\* notifications the BMS sends in answer to one command
MaxNotifs == 1

\* the entry of device_data built at lines 29-41
InitialDeviceData ==
    [voltages |-> Zeros(16), total |-> 0, strom |-> 0, soc |-> 0, status |-> "--",
     temp1 |-> 0, temp2 |-> 0, connected |-> FALSE, last_update |-> 0]

NotReading == [pc |-> "idle"]

\* the GUI program before start_async_loop runs its tasks
GuiConstructed ==
    /\ pc = [d \in devices |-> "start"]
    /\ packet = [d \in devices |-> <<>>]
    /\ device_data = [d \in devices |-> InitialDeviceData]
    /\ csv_file = [d \in devices |-> 0]
    /\ stop_event = FALSE
    /\ clock = [d \in devices |-> 0]
    /\ budget = [d \in devices |-> 0]
    /\ stop_in_sleep = {}
    /\ rd = NotReading

\* ------------------------------------------------------------------------
\* The receive paths under a fragmented stream
\* ------------------------------------------------------------------------

NoPoll == [polled |-> FALSE]

NotParsed == [done |-> FALSE]

ReceiveInit ==
    /\ \E name \in {"akku-1"}, ok \in BOOLEAN :
        /\ lg_csv_ok = ok
        /\ \/ \E g \in SeqsUpTo(GarbageBytes, MaxGarbage), f \in RawFrames, t \in Trailers :
                tx = [name |-> name, kind |-> "frame", garbage |-> g, frame |-> f,
                      trailer |-> t, cells |-> <<>>]
           \/ \E f \in LongFrames :
                tx = [name |-> name, kind |-> "frame", garbage |-> <<>>, frame |-> f,
                      trailer |-> <<>>, cells |-> <<>>]
           \/ \E cells \in CellLists, cs \in {<<255, 255>>} :
                tx = [name |-> name, kind |-> "encoded", garbage |-> <<>>,
                      frame |-> Encode(cells, cs), trailer |-> <<>>, cells |-> cells]
           \/ \E j \in SeqsUpTo(JunkBytes, MaxJunk) :
                tx = [name |-> name, kind |-> "junk", garbage |-> j, frame |-> <<>>,
                      trailer |-> <<>>, cells |-> <<>>]
    /\ fed = 0
    /\ lg_buffer = [d \in devices |-> <<>>]
    /\ lg_records = [d \in devices |-> <<>>]
    /\ lg_rows = [d \in devices |-> <<>>]
    /\ lg_packets = [d \in devices |-> <<>>]
    /\ lg_raised = FALSE
    /\ parsed = NotParsed
    /\ notify_buffer = [d \in devices |-> <<>>]
    /\ gx = NoPoll
    /\ GuiConstructed
    /\ alive = TRUE
    /\ lg_pc = [d \in devices |-> "off"]
    /\ link = [d \in devices |-> FALSE]

\* One notification of k bytes arrives: the logger's callback runs
\* handle_notify(name, d), the GUI's callback runs notify_buffer[name].extend(d).
Deliver(k) ==
    /\ gx = NoPoll
    /\ parsed = NotParsed
    /\ fed + k <= Len(Stream)
    /\ \E data \in {SubSeq(Stream, fed + 1, fed + k)} :
        /\ \E r \in {handle_notify(lg_buffer[tx.name], lg_records[tx.name],
                                   lg_rows[tx.name], data, lg_csv_ok)} :
            /\ lg_buffer' = [lg_buffer EXCEPT ![tx.name] = r.buf]
            /\ lg_records' = [lg_records EXCEPT ![tx.name] = r.records]
            /\ lg_rows' = [lg_rows EXCEPT ![tx.name] = r.rows]
            /\ lg_packets' = [lg_packets EXCEPT ![tx.name] = @ \o r.packets]
            /\ lg_raised' = r.raised
        /\ notify_buffer' = [notify_buffer EXCEPT ![tx.name] = @ \o data]
    /\ fed' = fed + k
    /\ UNCHANGED <<tx, lg_csv_ok, lg_pc, parsed, gx, gui_vars>>

\* The GUI's poll step on the received bytes (lines 129-132 and 147-150):
\* extract_packet(buf, type_byte), then the parser of that type.
GuiPoll(type_byte) ==
    /\ gx = NoPoll
    /\ fed = Len(Stream)
    /\ \E x \in {extract_packet(notify_buffer[tx.name], type_byte)} :
       /\ gx' = [polled |-> TRUE, type |-> type_byte, packet |-> x.packet,
                 voltages |-> IF x.packet # <<>> /\ type_byte = TYPE_CELLS
                              THEN gui_parse_cell_voltages(x.packet) ELSE <<>>,
                 status |-> IF x.packet # <<>> /\ type_byte = TYPE_STATUS
                            THEN gui_parse_status(x.packet) ELSE NoStatus]
       /\ notify_buffer' = [notify_buffer EXCEPT ![tx.name] = x.buf]
    /\ UNCHANGED <<tx, fed, lg_buffer, lg_records, lg_rows, lg_packets, lg_csv_ok, lg_raised, lg_pc,
                   parsed, gui_vars>>

\* parse_cell_voltages called on the frame itself, and the total the callers
\* compute from its result (sum(voltages), logger line 105, GUI line 134)
ParseFrame ==
    /\ parsed = NotParsed
    /\ fed = 0
    /\ tx.kind # "junk"
    /\ \E v \in {parse_cell_voltages(tx.frame)}, w \in {gui_parse_cell_voltages(tx.frame)} :
        parsed' = [done |-> TRUE,
                   voltages |-> v, total |-> SumSeq(v),
                   gui_voltages |-> w, gui_total |-> SumSeq(w)]
    /\ UNCHANGED <<tx, fed, lg_buffer, lg_records, lg_rows, lg_packets, lg_csv_ok, lg_raised, lg_pc,
                   gx, notify_buffer, gui_vars>>

ReceiveNext ==
    \/ \E k \in 1..Len(Stream) : Deliver(k)
    \/ \E type_byte \in {TYPE_CELLS, TYPE_STATUS} : GuiPoll(type_byte)
    \/ ParseFrame

\* The receive paths of both programs under every stream and fragmentation
SpecReceive == ReceiveInit /\ [][ReceiveNext]_vars

\* ------------------------------------------------------------------------
\* Properties of the receive paths
\* ------------------------------------------------------------------------

Range(s) == {s[i] : i \in 1..Len(s)}

\* the frame's only end marker is its last byte
NoInnerEnd(f) == \A i \in 1..(Len(f) - 1) : f[i] # END_MARKER

\* what a single handle_notify call makes of data, starting from an empty device
Whole(data) == handle_notify(<<>>, <<>>, <<>>, data, lg_csv_ok)

\* the cells of a frame DD 04 xx xx <payload> cc cc 77, read off its positions
ExpectedCells(f) ==
    [i \in 1..((Len(f) - 7) \div 2) |-> 256 * f[4 + 2 * i - 1] + f[4 + 2 * i]]

\* the sum of a list, by index
RECURSIVE SumTo(_, _)
SumTo(s, n) == IF n = 0 THEN 0 ELSE s[n] + SumTo(s, n - 1)

\* C1: however the stream is cut into notifications, after each of them the
\* logger's leftover buffer, decoded records and CSV rows are those a single
\* handle_notify call with all bytes received so far leaves.
C1_FragmentationIndependence ==
    /\ lg_buffer[tx.name] = Whole(SubSeq(Stream, 1, fed)).buf
    /\ lg_records[tx.name] = Whole(SubSeq(Stream, 1, fed)).records
    /\ lg_rows[tx.name] = Whole(SubSeq(Stream, 1, fed)).rows

\* The same while the CSV append of line 108 succeeds: the calls differ only
\* where the append raises out of handle_notify.
IndependentWhileCsvWritable == lg_csv_ok => C1_FragmentationIndependence

\* C7 as claimed: whatever the garbage G in front of a valid frame F, the
\* logger decodes what it decodes from F alone and the GUI's extract_packet
\* yields F itself.
C7_GarbageIgnored ==
    (tx.kind = "frame" /\ tx.trailer = <<>> /\ fed = Len(Stream)) =>
        /\ lg_records[tx.name] = Whole(tx.frame).records
        /\ (gx.polled /\ gx.type = tx.frame[2]) => gx.packet = tx.frame

\* C7 amended: for garbage G holding no start marker 0xDD, the logger decodes
\* from G followed by F what it decodes from F alone, and extract_packet yields
\* the packet it yields from F alone, which is F itself when F holds no 0x77
\* before its last byte; no byte of G is part of it.
C7_GarbageWithoutStartIgnored ==
    (/\ tx.kind = "frame" /\ tx.trailer = <<>> /\ fed = Len(Stream)
     /\ START_MARKER \notin Range(tx.garbage)) =>
        /\ lg_records[tx.name] = Whole(tx.frame).records
        /\ lg_buffer[tx.name] = Whole(tx.frame).buf
        /\ (gx.polled /\ gx.type = tx.frame[2]) =>
              /\ gx.packet = extract_packet(tx.frame, gx.type).packet
              /\ NoInnerEnd(tx.frame) => gx.packet = tx.frame

\* C7 witness: a cell frame behind two garbage bytes, one of them 0x77, was
\* decoded by the logger and extracted whole by the GUI.
C7_Witness ==
    /\ tx.kind = "frame" /\ tx.trailer = <<>> /\ fed = Len(Stream)
    /\ Len(tx.garbage) = 2
    /\ END_MARKER \in Range(tx.garbage)
    /\ START_MARKER \notin Range(tx.garbage)
    /\ Len(lg_records[tx.name]) = 1
    /\ gx.polled /\ gx.packet = tx.frame /\ gx.voltages # <<>>

\* C8: called on a frame DD 04 xx xx <payload> cc cc 77, parse_cell_voltages
\* (either program's) returns floor(len(payload)/2) values, the i-th the
\* big-endian 16-bit value of payload bytes 2i, 2i+1, a trailing odd byte
\* dropped; the total is their sum; the example frame gives 3300, 3310, 3295,
\* 3305 and 13210.
C8_CellDecoding ==
    (parsed.done /\ tx.frame[2] = TYPE_CELLS) =>
        /\ parsed.voltages = ExpectedCells(tx.frame)
        /\ parsed.gui_voltages = ExpectedCells(tx.frame)
        /\ parsed.total = SumTo(ExpectedCells(tx.frame), Len(ExpectedCells(tx.frame)))
        /\ parsed.gui_total = parsed.total
        /\ tx.frame = ExampleFrame =>
              /\ parsed.voltages = <<3300, 3310, 3295, 3305>>
              /\ parsed.total = 13210

\* C8 witness: a frame with a 33-byte payload was parsed into 16 cells.
C8_Witness ==
    /\ parsed.done
    /\ tx.frame[2] = TYPE_CELLS
    /\ Len(tx.frame) = 40
    /\ Len(parsed.voltages) = 16
    /\ parsed.total > 0

\* C9 as claimed: the frame encoded from any list of 1..16 cell voltages comes
\* back through the receive path as exactly one record holding the list.
C9_RoundTrip ==
    (tx.kind = "encoded" /\ fed = Len(Stream)) =>
        /\ Len(lg_records[tx.name]) = 1
        /\ lg_records[tx.name][1].kind = "cells"
        /\ lg_records[tx.name][1].voltages = tx.cells
        /\ (gx.polled /\ gx.type = TYPE_CELLS) => gx.voltages = tx.cells

\* C9 amended: the round trip holds for every list whose encoded frame holds
\* no byte 0x77 in its payload and checksum (the end marker is not escaped).
C9_RoundTripWithoutInnerEnd ==
    (tx.kind = "encoded" /\ fed = Len(Stream) /\ NoInnerEnd(tx.frame)) =>
        /\ Len(lg_records[tx.name]) = 1
        /\ lg_records[tx.name][1].kind = "cells"
        /\ lg_records[tx.name][1].voltages = tx.cells
        /\ lg_buffer[tx.name] = <<>>
        /\ (gx.polled /\ gx.type = TYPE_CELLS) => gx.voltages = tx.cells

\* C9 witness: sixteen cells of 3293 mV (0x0CDD, a start marker in every cell)
\* came back from both receive paths.
C9_Witness ==
    /\ tx.kind = "encoded" /\ fed = Len(Stream)
    /\ tx.cells = [i \in 1..16 |-> 3293]
    /\ Len(lg_records[tx.name]) = 1
    /\ gx.polled /\ gx.voltages = tx.cells


\* ------------------------------------------------------------------------
\* smartbms_gui.py: poll_monitor, one coroutine per device
\* ------------------------------------------------------------------------

\* A coroutine is suspended in an await; pc names it:
\*   "start"         the task is created and has not run yet
\*   "connect"       async with BleakClient(address)            (line 120)
\*   "start_notify"  await client.start_notify(...)             (line 125)
\*   "sleep_045"     await asyncio.sleep(0.45)                  (line 126)
\*   "write_cells"   await client.write_gatt_char(.., CMD_CELLS)  (line 127)
\*   "sleep_10"      await asyncio.sleep(1.0)                   (line 128)
\*   "set_total"     between lines 133 and 134: no await, but the Tk thread
\*                   may run here
\*   "write_status"  await client.write_gatt_char(.., CMD_STATUS) (line 145)
\*   "sleep_06"      await asyncio.sleep(0.6)                   (line 146)
\*   "stop_notify"   await client.stop_notify(CHAR_NOTIFY)      (line 163)
\*   "sleep_poll"    await asyncio.sleep(POLL_INTERVAL)         (line 169)
\*   "done"          the while-loop was left

\* the awaits during which the notification callback is registered
Subscribed ==
    {"sleep_045", "write_cells", "sleep_10", "write_status", "sleep_06", "stop_notify"}

\* the sleeps of poll_monitor
SleepPoints == {"sleep_045", "sleep_10", "sleep_06", "sleep_poll"}

\* DD 04 04 00 0C E4 0C EE FF FF 77: two cells, 3300 and 3310 mV
NotifCells == BuildFrame(TYPE_CELLS, <<12, 228, 12, 238>>, <<255, 255>>)

\* a status answer with the eleven payload bytes the GUI's parse_status reads
NotifStatus ==
    BuildFrame(TYPE_STATUS, <<5, 40, 255, 156, 0, 100, 0, 200, 80, 25, 26>>, <<255, 255>>)

\* DD 04 77: a complete candidate of three bytes
NotifShort == <<START_MARKER, TYPE_CELLS, END_MARKER>>

\* a cell answer whose end marker has not arrived
NotifNoEnd == <<START_MARKER, TYPE_CELLS, 2, 0, 12, 228, 255, 255>>

\* a cell answer of a pack with seventeen cells of 3300 mV
NotifCells17 ==
    BuildFrame(TYPE_CELLS, [i \in 1..34 |-> IF i % 2 = 1 THEN 12 ELSE 228], <<255, 255>>)

\* what a BMS may send in one notification
Notifs == {NotifCells, NotifStatus, NotifShort, NotifNoEnd}

\* a cell answer whose first cell drifts with the time of the cycle:
\* 3300 + c and 3310 mV
NotifCellsAt(c) == BuildFrame(TYPE_CELLS, <<12, 228 + c, 12, 238>>, <<255, 255>>)

\* the device in radio range; the other one never answers
InRange == {"akku-1"}

NextStamp(c) == (c % NumStamps) + 1

\* Mutant of LoopHead: while True, the stop event is not looked at.
LoopHeadIgnoresStop(d) ==
    /\ pc' = [pc EXCEPT ![d] = "connect"]
    /\ device_data' = [device_data EXCEPT ![d].connected = FALSE,
                                          ![d].status = "scan"]
    /\ clock' = [clock EXCEPT ![d] = NextStamp(@)]

\* the test of the while-loop and lines 116-120, up to the await of the connect
LoopHead(d) ==
    IF stop_event
    THEN /\ pc' = [pc EXCEPT ![d] = "done"]
         /\ UNCHANGED <<device_data, clock>>
    ELSE /\ pc' = [pc EXCEPT ![d] = "connect"]
         /\ device_data' = [device_data EXCEPT ![d].connected = FALSE,
                                               ![d].status = "scan"]
         /\ clock' = [clock EXCEPT ![d] = NextStamp(@)]

\* Mutant of ExceptHandler: the session gives up after an exception, as
\* monitor_bms of the logger does.
ExceptHandlerGivesUp(d, data) ==
    /\ device_data' = [data EXCEPT ![d].status = "error", ![d].connected = FALSE]
    /\ pc' = [pc EXCEPT ![d] = "done"]
    /\ packet' = [packet EXCEPT ![d] = <<>>]
    /\ budget' = [budget EXCEPT ![d] = 0]

\* Mutant of ExceptHandler: the handler puts the entry back to its values of
\* import.
ExceptHandlerClears(d, data) ==
    /\ device_data' = [data EXCEPT ![d] = [InitialDeviceData EXCEPT !.status = "error"]]
    /\ pc' = [pc EXCEPT ![d] = "sleep_poll"]
    /\ packet' = [packet EXCEPT ![d] = <<>>]
    /\ budget' = [budget EXCEPT ![d] = 0]

\* Mutant of ExceptHandler: the handler marks every device disconnected.
ExceptHandlerMarksAll(d, data) ==
    /\ device_data' = [x \in devices |->
                         IF x = d THEN [data[x] EXCEPT !.status = "error", !.connected = FALSE]
                         ELSE [data[x] EXCEPT !.connected = FALSE]]
    /\ pc' = [pc EXCEPT ![d] = "sleep_poll"]
    /\ packet' = [packet EXCEPT ![d] = <<>>]
    /\ budget' = [budget EXCEPT ![d] = 0]

\* except Exception (lines 164-167) after the link was closed by leaving the
\* async with; data is device_data as the try block left it
ExceptHandler(d, data) ==
    /\ device_data' = [data EXCEPT ![d].status = "error", ![d].connected = FALSE]
    /\ pc' = [pc EXCEPT ![d] = "sleep_poll"]
    /\ packet' = [packet EXCEPT ![d] = <<>>]
    /\ budget' = [budget EXCEPT ![d] = 0]

\* Mutant of Start: the sessions are awaited one after the other instead of
\* gathered, so a session starts only when the one before it has returned.
StartSequential(d) ==
    /\ alive
    /\ pc[d] = "start"
    /\ d = "akku-2" => pc["akku-1"] = "done"
    /\ notify_buffer' = [notify_buffer EXCEPT ![d] = <<>>]
    /\ LoopHead(d)
    /\ UNCHANGED <<frame_vars, packet, csv_file, stop_event, alive, link, budget, stop_in_sleep, rd>>

\* the task starts: line 113, then the loop head
Start(d) ==
    /\ alive
    /\ pc[d] = "start"
    /\ notify_buffer' = [notify_buffer EXCEPT ![d] = <<>>]
    /\ LoopHead(d)
    /\ UNCHANGED <<frame_vars, packet, csv_file, stop_event, alive, link, budget, stop_in_sleep, rd>>

\* the connect succeeds: lines 121-125 up to the await of start_notify
ConnectOk(d) ==
    /\ alive
    /\ pc[d] = "connect"
    /\ link[d]
    /\ device_data' = [device_data EXCEPT ![d].connected = TRUE]
    /\ notify_buffer' = [notify_buffer EXCEPT ![d] = <<>>]
    /\ pc' = [pc EXCEPT ![d] = "start_notify"]
    /\ UNCHANGED <<frame_vars, packet, csv_file, stop_event, alive, clock, link, budget, stop_in_sleep, rd>>

\* the connect raises
ConnectFail(d) ==
    /\ alive
    /\ pc[d] = "connect"
    /\ ~link[d]
    /\ ExceptHandler(d, device_data)
    /\ UNCHANGED <<frame_vars, notify_buffer, csv_file, stop_event, alive, clock, link, stop_in_sleep, rd>>

\* start_notify returns: the callback is registered, the 0.45 s sleep begins
StartNotifyOk(d) ==
    /\ alive
    /\ pc[d] = "start_notify"
    /\ link[d]
    /\ pc' = [pc EXCEPT ![d] = "sleep_045"]
    /\ UNCHANGED <<frame_vars, notify_buffer, packet, device_data, csv_file, stop_event,
                   alive, clock, link, budget, stop_in_sleep, rd>>

\* start_notify raises
StartNotifyFail(d) ==
    /\ alive
    /\ pc[d] = "start_notify"
    /\ ~link[d]
    /\ ExceptHandler(d, device_data)
    /\ UNCHANGED <<frame_vars, notify_buffer, csv_file, stop_event, alive, clock, link, stop_in_sleep, rd>>

\* the callback of line 125: notify_buffer[name].extend(d)
Notify(d, data) ==
    /\ alive
    /\ pc[d] \in Subscribed
    /\ link[d]
    /\ budget[d] > 0
    /\ notify_buffer' = [notify_buffer EXCEPT ![d] = @ \o data]
    /\ budget' = [budget EXCEPT ![d] = @ - 1]
    /\ UNCHANGED <<frame_vars, pc, packet, device_data, csv_file, stop_event, alive,
                   clock, link, stop_in_sleep, rd>>

\* the 0.45 s sleep returns and write_gatt_char(CHAR_WRITE, CMD_CELLS) is called
Sleep045Done(d) ==
    /\ alive
    /\ pc[d] = "sleep_045"
    /\ pc' = [pc EXCEPT ![d] = "write_cells"]
    /\ UNCHANGED <<frame_vars, notify_buffer, packet, device_data, csv_file, stop_event,
                   alive, clock, link, budget, stop_in_sleep, rd>>

\* CMD_CELLS is written; the BMS will answer; the 1.0 s sleep begins
WriteCellsOk(d) ==
    /\ alive
    /\ pc[d] = "write_cells"
    /\ link[d]
    /\ pc' = [pc EXCEPT ![d] = "sleep_10"]
    /\ budget' = [budget EXCEPT ![d] = MaxNotifs]
    /\ UNCHANGED <<frame_vars, notify_buffer, packet, device_data, csv_file, stop_event,
                   alive, clock, link, stop_in_sleep, rd>>

\* the write of CMD_CELLS raises
WriteCellsFail(d) ==
    /\ alive
    /\ pc[d] = "write_cells"
    /\ ~link[d]
    /\ ExceptHandler(d, device_data)
    /\ UNCHANGED <<frame_vars, notify_buffer, csv_file, stop_event, alive, clock, link, stop_in_sleep, rd>>

\* Mutant of StoredVoltages: the list is cut to the sixteen bars of the window.
StoredVoltagesCapped(voltages) == SubSeq(voltages \o Zeros(16), 1, 16)

\* line 133: voltages + [0.0]*(16-len(voltages))
StoredVoltages(voltages) == voltages \o Zeros(16 - Len(voltages))

\* The 1.0 s sleep returns: lines 129-133.  With a packet the list is parsed
\* and device_data[name]["voltages"] is replaced; without one the code goes on
\* to line 144 (the buffer is cleared) and calls the write of CMD_STATUS.
ExtractCells(d) ==
    /\ alive
    /\ pc[d] = "sleep_10"
    /\ \E x \in {extract_packet(notify_buffer[d], TYPE_CELLS)} :
        IF x.packet # <<>>
        THEN \E v \in {gui_parse_cell_voltages(x.packet)} :
                /\ packet' = [packet EXCEPT ![d] = x.packet]
                /\ device_data' = [device_data EXCEPT
                                     ![d].voltages = StoredVoltages(v)]
                /\ notify_buffer' = [notify_buffer EXCEPT ![d] = x.buf]
                /\ pc' = [pc EXCEPT ![d] = "set_total"]
        ELSE /\ packet' = [packet EXCEPT ![d] = <<>>]
             /\ notify_buffer' = [notify_buffer EXCEPT ![d] = <<>>]
             /\ pc' = [pc EXCEPT ![d] = "write_status"]
             /\ UNCHANGED device_data
    /\ UNCHANGED <<frame_vars, csv_file, stop_event, alive, clock, link, budget,
                   stop_in_sleep, rd>>

\* lines 140-142: one more row in the file
CsvAppend(rows) == (rows + 1) % NumRows

\* lines 134-145: the total is stored, the row is appended, the buffer is
\* cleared and the write of CMD_STATUS is called
SetTotalLogOk(d) ==
    /\ alive
    /\ pc[d] = "set_total"
    /\ device_data' = [device_data EXCEPT ![d].total = SumSeq(gui_parse_cell_voltages(packet[d]))]
    /\ csv_file' = [csv_file EXCEPT ![d] = CsvAppend(@)]
    /\ notify_buffer' = [notify_buffer EXCEPT ![d] = <<>>]
    /\ pc' = [pc EXCEPT ![d] = "write_status"]
    /\ UNCHANGED <<frame_vars, packet, stop_event, alive, clock, link, budget,
                   stop_in_sleep, rd>>

\* lines 134-142 with open() or writerow() raising: the total is stored, then
\* the exception leaves the async with and reaches the handler
SetTotalLogFail(d) ==
    /\ alive
    /\ pc[d] = "set_total"
    /\ ExceptHandler(d, [device_data EXCEPT ![d].total = SumSeq(gui_parse_cell_voltages(packet[d]))])
    /\ UNCHANGED <<frame_vars, notify_buffer, csv_file, stop_event, alive, clock, link,
                   stop_in_sleep, rd>>

\* CMD_STATUS is written; the BMS will answer; the 0.6 s sleep begins
WriteStatusOk(d) ==
    /\ alive
    /\ pc[d] = "write_status"
    /\ link[d]
    /\ pc' = [pc EXCEPT ![d] = "sleep_06"]
    /\ budget' = [budget EXCEPT ![d] = MaxNotifs]
    /\ UNCHANGED <<frame_vars, notify_buffer, packet, device_data, csv_file, stop_event,
                   alive, clock, link, stop_in_sleep, rd>>

\* the write of CMD_STATUS raises
WriteStatusFail(d) ==
    /\ alive
    /\ pc[d] = "write_status"
    /\ ~link[d]
    /\ ExceptHandler(d, device_data)
    /\ UNCHANGED <<frame_vars, notify_buffer, csv_file, stop_event, alive, clock, link, stop_in_sleep, rd>>

\* lines 149-161: what the status step stores for a packet (<<>> for None)
StatusUpdate(data, pkt) ==
    IF pkt = <<>> THEN [data EXCEPT !.status = "keine Antwort"]
    ELSE LET s == gui_parse_status(pkt) IN
         IF s.ok
         THEN [data EXCEPT !.strom = s.strom, !.soc = s.soc, !.temp1 = s.temp1,
                           !.temp2 = s.temp2, !.status = "T1 T2"]
         ELSE [data EXCEPT !.status = "unklar"]

\* The 0.6 s sleep returns: lines 147-163 up to the await of stop_notify.
ExtractStatus(d) ==
    /\ alive
    /\ pc[d] = "sleep_06"
    /\ \E x \in {extract_packet(notify_buffer[d], TYPE_STATUS)} :
        /\ device_data' = [device_data EXCEPT
                             ![d] = [StatusUpdate(@, x.packet) EXCEPT
                                        !.last_update = clock[d]]]
        /\ notify_buffer' = [notify_buffer EXCEPT ![d] = x.buf]
        /\ packet' = [packet EXCEPT ![d] = x.packet]
    /\ pc' = [pc EXCEPT ![d] = "stop_notify"]
    /\ UNCHANGED <<frame_vars, csv_file, stop_event, alive, clock, link, budget, stop_in_sleep, rd>>

\* stop_notify returns, the async with is left (the link is closed), the
\* POLL_INTERVAL sleep begins
StopNotifyOk(d) ==
    /\ alive
    /\ pc[d] = "stop_notify"
    /\ link[d]
    /\ pc' = [pc EXCEPT ![d] = "sleep_poll"]
    /\ budget' = [budget EXCEPT ![d] = 0]
    /\ UNCHANGED <<frame_vars, notify_buffer, packet, device_data, csv_file, stop_event,
                   alive, clock, link, stop_in_sleep, rd>>

\* stop_notify raises
StopNotifyFail(d) ==
    /\ alive
    /\ pc[d] = "stop_notify"
    /\ ~link[d]
    /\ ExceptHandler(d, device_data)
    /\ UNCHANGED <<frame_vars, notify_buffer, csv_file, stop_event, alive, clock, link, stop_in_sleep, rd>>

\* the POLL_INTERVAL sleep returns: back to the loop head
PollSleepDone(d) ==
    /\ alive
    /\ pc[d] = "sleep_poll"
    /\ LoopHead(d)
    /\ UNCHANGED <<frame_vars, notify_buffer, packet, csv_file, stop_event, alive, link,
                   budget, stop_in_sleep, rd>>

\* every step of the session of device d
Session(d) ==
    \/ Start(d)
    \/ ConnectOk(d) \/ ConnectFail(d)
    \/ StartNotifyOk(d) \/ StartNotifyFail(d)
    \/ Sleep045Done(d)
    \/ WriteCellsOk(d) \/ WriteCellsFail(d)
    \/ ExtractCells(d)
    \/ SetTotalLogOk(d) \/ SetTotalLogFail(d)
    \/ WriteStatusOk(d) \/ WriteStatusFail(d)
    \/ ExtractStatus(d)
    \/ StopNotifyOk(d) \/ StopNotifyFail(d)
    \/ PollSleepDone(d)

\* ------------------------------------------------------------------------
\* smartbms_gui.py: the Tk thread and the surroundings
\* ------------------------------------------------------------------------

\* BMSGUI.stop: stop_event.set() and self.destroy(); it runs on the Tk thread,
\* so never in the middle of update_gui
Stop ==
    /\ alive
    /\ ~stop_event
    /\ rd = NotReading
    /\ stop_event' = TRUE
    /\ rd' = [pc |-> "closed"]
    /\ UNCHANGED <<frame_vars, notify_buffer, pc, packet, device_data, csv_file, alive,
                   clock, link, budget>>

\* kept for the properties: the sessions that are in a sleep at this step
WatchSleepers == stop_in_sleep' = {d \in devices : pc[d] \in SleepPoints}

\* app.mainloop() returns and the main thread ends: the daemon thread with
\* the asyncio loop ends with the process
Exit ==
    /\ alive
    /\ stop_event
    /\ alive' = FALSE
    /\ UNCHANGED <<frame_vars, notify_buffer, pc, packet, device_data, csv_file,
                   stop_event, clock, link, budget, stop_in_sleep, rd>>

\* the BLE link of a device in range comes or goes
LinkChange(d) ==
    /\ alive \/ lg_pc[d] # "off"
    /\ d \in InRange
    /\ link' = [link EXCEPT ![d] = ~@]
    /\ UNCHANGED <<frame_vars, notify_buffer, pc, packet, device_data, csv_file,
                   stop_event, alive, clock, budget, stop_in_sleep, rd>>

\* update_gui reads the devices in the order of the mapping
FirstDevice == "akku-1"

\* update_gui, lines 253-258: d = device_data[name] is a reference, then
\* d["connected"] and, when connected, d["last_update"] are read
ReadConnected(d) ==
    /\ alive
    /\ \/ rd = NotReading /\ d = FirstDevice
       \/ rd.pc = "bars" /\ rd.name = FirstDevice /\ d # FirstDevice
    /\ rd' = [pc |-> "connected", name |-> d,
              connected |-> device_data[d].connected,
              last_update |-> IF device_data[d].connected
                              THEN device_data[d].last_update ELSE 0,
              total |-> 0, voltages |-> <<>>]
    /\ UNCHANGED <<frame_vars, notify_buffer, pc, packet, device_data, csv_file,
                   stop_event, alive, clock, link, budget, stop_in_sleep>>

\* update_gui, lines 260-267: d["total"] and the status fields are read
ReadTotal(d) ==
    /\ alive
    /\ rd.pc = "connected"
    /\ rd.name = d
    /\ rd' = [rd EXCEPT !.pc = "total",
                        !.total = device_data[d].total]
    /\ UNCHANGED <<frame_vars, notify_buffer, pc, packet, device_data, csv_file,
                   stop_event, alive, clock, link, budget, stop_in_sleep>>

\* update_gui, lines 269-279: d["voltages"][i] is read for the sixteen bars
ReadBars(d) ==
    /\ alive
    /\ rd.pc = "total"
    /\ rd.name = d
    /\ rd' = [rd EXCEPT !.pc = "bars",
                        !.voltages = device_data[d].voltages]
    /\ UNCHANGED <<frame_vars, notify_buffer, pc, packet, device_data, csv_file,
                   stop_event, alive, clock, link, budget, stop_in_sleep>>

\* update_gui, line 280: the pass is over, the next one is scheduled
ReadEnd ==
    /\ alive
    /\ rd.pc = "bars"
    /\ rd.name # FirstDevice
    /\ rd' = NotReading
    /\ UNCHANGED <<frame_vars, notify_buffer, pc, packet, device_data, csv_file,
                   stop_event, alive, clock, link, budget, stop_in_sleep>>

\* ------------------------------------------------------------------------
\* smartbms_dual_logger.py: monitor_bms, one coroutine per device
\* ------------------------------------------------------------------------
\*
\* lg_pc[d] is the await at which the coroutine of device d is suspended:
\*   "connect"       async with BleakClient(address)            (line 69)
\*   "start_notify"  await client.start_notify(..)              (line 72)
\*   "sleep_1"       await asyncio.sleep(1)                     (line 73)
\*   "write_cells"   await client.write_gatt_char(.., CMD_CELLS)  (lines 74, 79)
\*   "sleep_02"      await asyncio.sleep(0.2)                   (lines 75, 80)
\*   "write_status"  await client.write_gatt_char(.., CMD_STATUS) (lines 76, 81)
\*   "sleep_5"       await asyncio.sleep(5)                     (line 78)
\*   "returned"      the coroutine has returned
\*   "off"           the logger program is not running

\* the awaits of monitor_bms that call the transport
LgTransportCalls == {"connect", "start_notify", "write_cells", "write_status"}

\* the connect succeeds: lines 70-72 up to the await of start_notify
LgConnectOk(d) ==
    /\ lg_pc[d] = "connect"
    /\ link[d]
    /\ lg_buffer' = [lg_buffer EXCEPT ![d] = <<>>]
    /\ lg_pc' = [lg_pc EXCEPT ![d] = "start_notify"]
    /\ UNCHANGED <<tx, fed, lg_records, lg_rows, lg_packets, lg_csv_ok, lg_raised, parsed, gx,
                   notify_buffer, gui_vars>>

\* where monitor_bms waits after a transport call or a sleep has returned
LgAfter(at) ==
    CASE at = "start_notify" -> "sleep_1"
      [] at = "sleep_1" -> "write_cells"
      [] at = "write_cells" -> "sleep_02"
      [] at = "sleep_02" -> "write_status"
      [] at = "write_status" -> "sleep_5"
      [] at = "sleep_5" -> "write_cells"

\* a transport call other than the connect returns, or a sleep does
LgStep(d) ==
    /\ lg_pc[d] \in {"start_notify", "sleep_1", "write_cells", "sleep_02",
                     "write_status", "sleep_5"}
    /\ lg_pc[d] \in LgTransportCalls => link[d]
    /\ lg_pc' = [lg_pc EXCEPT ![d] = LgAfter(@)]
    /\ UNCHANGED <<tx, fed, lg_buffer, lg_records, lg_rows, lg_packets, lg_csv_ok, lg_raised, parsed,
                   gx, notify_buffer, gui_vars>>

\* a transport call raises: except Exception (lines 82-83) prints and the
\* coroutine returns
LgTransportFail(d) ==
    /\ lg_pc[d] \in LgTransportCalls
    /\ ~link[d]
    /\ lg_pc' = [lg_pc EXCEPT ![d] = "returned"]
    /\ UNCHANGED <<tx, fed, lg_buffer, lg_records, lg_rows, lg_packets, lg_csv_ok, lg_raised, parsed,
                   gx, notify_buffer, gui_vars>>

\* every step of the logger's session of device d
monitor_bms(d) == LgConnectOk(d) \/ LgStep(d) \/ LgTransportFail(d)

\* ------------------------------------------------------------------------
\* The programs at work
\* ------------------------------------------------------------------------

\* the frame harness at rest while a program runs
ReceiveIdle ==
    /\ tx = [name |-> "akku-1", kind |-> "junk", garbage |-> <<>>, frame |-> <<>>,
             trailer |-> <<>>, cells |-> <<>>]
    /\ fed = 0
    /\ lg_buffer = [d \in devices |-> <<>>]
    /\ lg_records = [d \in devices |-> <<>>]
    /\ lg_rows = [d \in devices |-> <<>>]
    /\ lg_packets = [d \in devices |-> <<>>]
    /\ lg_csv_ok = TRUE
    /\ lg_raised = FALSE
    /\ parsed = NotParsed
    /\ gx = NoPoll
    /\ notify_buffer = [d \in devices |-> <<>>]
    /\ GuiConstructed

\* smartbms_gui.py was started: the tasks of start_async_loop are created
GuiStarted == alive = TRUE /\ lg_pc = [d \in devices |-> "off"]

\* smartbms_dual_logger.py was started: main gathers the monitor_bms tasks
LoggerStarted == alive = FALSE /\ lg_pc = [d \in devices |-> "connect"]

Init ==
    /\ ReceiveIdle
    /\ GuiStarted \/ LoggerStarted
    /\ link = [d \in devices |-> FALSE]

Next ==
    \/ \E d \in devices : Session(d)
    \/ \E d \in devices : \E data \in Notifs : Notify(d, data)
    \/ \E d \in devices : monitor_bms(d)
    \/ \E d \in devices : LinkChange(d)
    \/ Stop /\ WatchSleepers
    \/ Exit

\* Either program with a link that comes and goes, a BMS that sends whole,
\* short and unfinished answers, and a CSV file that may fail
Spec == Init /\ [][Next]_vars

\* the steps of a session whose transport calls do what the link allows
SessionOk(d) ==
    \/ Start(d)
    \/ ConnectOk(d) \/ ConnectFail(d)
    \/ StartNotifyOk(d)
    \/ Sleep045Done(d)
    \/ WriteCellsOk(d)
    \/ ExtractCells(d)
    \/ SetTotalLogOk(d)
    \/ WriteStatusOk(d)
    \/ ExtractStatus(d)
    \/ StopNotifyOk(d)
    \/ PollSleepDone(d)

\* the GUI program with one device that answers every call and one that is
\* never there
InitThreads ==
    /\ ReceiveIdle
    /\ GuiStarted
    /\ \E h \in devices : link = [d \in devices |-> d = h]

ThreadsNext ==
    \/ \E d \in devices : SessionOk(d)
    \/ \E d \in devices : Notify(d, NotifCellsAt(clock[d]))
    \/ \E d \in devices : Notify(d, NotifStatus)
    \/ \E d \in devices : ReadConnected(d) \/ ReadTotal(d) \/ ReadBars(d)
    \/ ReadEnd

\* The asyncio thread with the sessions and the Tk thread with update_gui
\* on the shared device_data
SpecThreads == InitThreads /\ [][ThreadsNext]_vars

\* either program with one device that answers every call and one that is
\* never there
InitOneHealthy ==
    /\ ReceiveIdle
    /\ GuiStarted \/ LoggerStarted
    /\ \E h \in devices : link = [d \in devices |-> d = h]

\* what a BMS in order sends: the answer to the command written last
AnswerTo(d) ==
    IF pc[d] \in {"sleep_10", "write_status"} THEN NotifCells ELSE NotifStatus

LiveNext ==
    \/ \E d \in devices : SessionOk(d) \/ SetTotalLogFail(d)
    \/ \E d \in devices : Notify(d, AnswerTo(d))
    \/ \E d \in devices : monitor_bms(d)
    \/ Stop /\ UNCHANGED stop_in_sleep

\* the event loop runs every task that is ready: a coroutine whose await has
\* returned or raised is resumed
Fairness ==
    \A d \in devices :
        /\ WF_vars(SessionOk(d) \/ SetTotalLogFail(d))
        /\ WF_vars(monitor_bms(d))

\* The sessions of either program gathered on one event loop, one device
\* never reachable
SpecLive == InitOneHealthy /\ [][LiveNext]_vars /\ Fairness

StoreNext ==
    \/ \E d \in devices : SessionOk(d) \/ SetTotalLogFail(d)
    \/ \E d \in devices : Notify(d, AnswerTo(d))
    \/ \E d \in devices : ReadConnected(d) \/ ReadTotal(d) \/ ReadBars(d)
    \/ ReadEnd

\* The sessions and update_gui on the shared mappings, the BMS answering each
\* command with its frame
SpecStore == InitThreads /\ [][StoreNext]_vars

\* the GUI program with no device reachable yet
InitFaults ==
    /\ ReceiveIdle
    /\ GuiStarted
    /\ link = [d \in devices |-> FALSE]

FaultsNext ==
    \/ \E d \in devices : Session(d)
    \/ \E d \in devices : Notify(d, AnswerTo(d))
    \/ \E d \in devices : LinkChange(d)

\* The sessions under a link that comes and goes at any await, the BMS
\* answering each command with its frame
SpecFaults == InitFaults /\ [][FaultsNext]_vars

\* what a BMS may send in answer to the command written last: to CMD_CELLS a
\* whole, an oversized, a short or an unfinished cell frame
AnswersTo(d) ==
    IF pc[d] \in {"sleep_10", "write_status"}
    THEN {NotifCells, NotifCells17, NotifShort, NotifNoEnd}
    ELSE {NotifStatus}

AnswersNext ==
    \/ \E d \in devices : SessionOk(d) \/ SetTotalLogFail(d)
    \/ \E d \in devices : \E data \in AnswersTo(d) : Notify(d, data)

\* The sessions on a link that holds, the BMS sending whole, oversized, short
\* and unfinished answers
SpecAnswers == InitThreads /\ [][AnswersNext]_vars

\* ------------------------------------------------------------------------
\* Properties of the polling sessions
\* ------------------------------------------------------------------------

\* the measurement fields of a device's entry
Measurement(d) ==
    [f \in {"voltages", "total", "strom", "soc", "temp1", "temp2"} |-> device_data[d][f]]

\* C2: a connect that raises leaves connected false at once and the session in
\* the POLL_INTERVAL sleep; that sleep is left for a new connect attempt, or
\* for the end of the session when stop_event is set; a session ends only
\* with stop_event set; and every such sleep is followed by a new attempt
\* unless stop_event is set.
C2_ConnectFailureRetried ==
    /\ [][\A d \in devices :
            (pc[d] = "connect" /\ ~link[d] /\ pc'[d] # "connect") =>
                /\ ~device_data'[d].connected
                /\ pc'[d] = "sleep_poll"]_vars
    /\ [][\A d \in devices :
            (pc[d] = "sleep_poll" /\ pc'[d] # "sleep_poll") =>
                IF stop_event THEN pc'[d] = "done" ELSE pc'[d] = "connect"]_vars
    /\ [](\A d \in devices : pc[d] = "done" => stop_event)
    /\ \A d \in devices :
            (pc[d] = "sleep_poll" /\ ~device_data[d].connected)
                ~> (pc[d] = "connect" \/ stop_event)

\* C2 witness: the device that is never there is being connected to again,
\* the attempt before having failed.
C2_Witness ==
    \E d \in devices :
        /\ ~link[d]
        /\ pc[d] = "connect"
        /\ clock[d] = 2
        /\ ~device_data[d].connected
        /\ ~stop_event

\* C3: update_gui never shows a voltages list of one poll cycle next to a
\* total or a last_update that another poll cycle wrote.  The first cell of a
\* list is 3300 mV plus the stamp of its cycle; 0 is the value from import.
C3_SnapshotAtomicity ==
    (rd.pc = "bars" /\ rd.voltages # Zeros(16)) =>
        /\ rd.total # 0 => rd.total = SumSeq(rd.voltages)
        /\ (rd.connected /\ rd.last_update # 0) =>
              rd.last_update = rd.voltages[1] - 3300

\* C4: a session that was in one of its sleeps when stop_event was set
\* completes no write of CMD_CELLS or CMD_STATUS afterwards.
C4_NoWriteAfterStopInSleep ==
    [][\A d \in stop_in_sleep :
          /\ ~(pc[d] = "write_cells" /\ pc'[d] = "sleep_10")
          /\ ~(pc[d] = "write_status" /\ pc'[d] = "sleep_06")]_vars

\* C5: with one device never reachable, the session of the other one keeps
\* writing CMD_CELLS and keeps reaching the end of its poll cycle: in the GUI
\* program for as long as stop_event is not set, in the logger program for
\* ever; and a session that has not ended always has a step it can take,
\* whatever the other session is doing.
C5_FaultIsolation ==
    /\ \A h \in devices : []<>(stop_event \/ ~alive \/ ~link[h] \/ pc[h] = "sleep_10")
    /\ \A h \in devices : []<>(stop_event \/ ~alive \/ ~link[h] \/ pc[h] = "sleep_poll")
    /\ \A h \in devices : []<>(lg_pc[h] = "off" \/ ~link[h] \/ lg_pc[h] = "sleep_02")
    /\ \A h \in devices : []<>(lg_pc[h] = "off" \/ ~link[h] \/ lg_pc[h] = "sleep_5")
    /\ [](\A d \in devices :
            /\ (alive /\ pc[d] # "done") => ENABLED (SessionOk(d) \/ SetTotalLogFail(d))
            /\ lg_pc[d] \notin {"off", "returned"} => ENABLED monitor_bms(d))

\* C5 witness: one device has failed to connect and is being tried again
\* while the other one has finished a poll cycle with its status stored.
C5_Witness ==
    \E h \in devices : \E f \in devices :
        /\ link[h] /\ ~link[f]
        /\ pc[f] = "connect" /\ device_data[f].status = "scan" /\ clock[f] = 2
        /\ pc[h] = "sleep_poll"
        /\ device_data[h].connected
        /\ device_data[h].last_update # 0
        /\ device_data[h].total > 0

\* C6: bytes shorter than MIN_FRAME_LEN (7), or without an end marker, change
\* no measurement field and append no CSV row: neither as the buffer a poll
\* step extracts from nor as the packet the logging step works on.
C6_ShortSequenceIgnored ==
    [][\A d \in devices :
          /\ (/\ pc[d] \in {"sleep_10", "sleep_06"}
              /\ \/ Len(notify_buffer[d]) < 7
                 \/ END_MARKER \notin Range(notify_buffer[d])) =>
                Measurement(d)' = Measurement(d)
          /\ (pc[d] = "set_total" /\ Len(packet[d]) < 7) =>
                /\ Measurement(d)' = Measurement(d)
                /\ csv_file'[d] = csv_file[d]]_vars

\* C10: when the logging step of a poll cycle is left without a row appended
\* (the append raised), the session has called the write of CMD_STATUS, is
\* still marked connected and has not taken the error path.
C10_CsvFailureContained ==
    [][\A d \in devices :
          (pc[d] = "set_total" /\ pc'[d] # "set_total" /\ csv_file'[d] = csv_file[d]) =>
              /\ pc'[d] = "write_status"
              /\ device_data'[d].connected
              /\ device_data'[d].status # "error"]_vars

\* ------------------------------------------------------------------------
\* Properties of the logger's sessions
\* ------------------------------------------------------------------------

\* C11: a monitor_bms session has no terminal state: a connect, subscribe or
\* write that raises takes the session back to connecting, so no session ever
\* is in the state of having returned.
C11_LoggerSessionRetries ==
    /\ [][\A d \in devices :
            (lg_pc[d] \in LgTransportCalls /\ ~link[d] /\ lg_pc'[d] # lg_pc[d]) =>
                lg_pc'[d] = "connect"]_vars
    /\ [](\A d \in devices : lg_pc[d] # "returned")

\* ------------------------------------------------------------------------
\* Properties of the shared state
\* ------------------------------------------------------------------------

\* C12: a step of the session of device a leaves device_data[b] and
\* notify_buffer[b] of every other device b as they are; an entry of
\* device_data changes only in a step of its own session; and no step of
\* update_gui changes device_data.
C12_SingleWriter ==
    [][/\ \A a \in devices : pc'[a] # pc[a] =>
              \A b \in devices \ {a} :
                  /\ device_data'[b] = device_data[b]
                  /\ notify_buffer'[b] = notify_buffer[b]
       /\ \A b \in devices : device_data'[b] # device_data[b] => pc'[b] # pc[b]
       /\ rd' # rd => device_data' = device_data]_vars

\* C12 witness: while update_gui is in the middle of a pass, one session has
\* stored a total and holds received bytes, and the other one has written its
\* error status.
C12_Witness ==
    \E h \in devices : \E f \in devices \ {h} :
        /\ rd.pc = "total"
        /\ device_data[h].total > 0
        /\ device_data[h].connected
        /\ notify_buffer[h] # <<>>
        /\ device_data[f].status = "error"

\* ------------------------------------------------------------------------
\* Properties of the logger's buffer
\* ------------------------------------------------------------------------

\* C13: after handle_notify has processed a notification, a buffer that holds
\* no start marker 0xDD is empty.
C13_NoStartBufferDiscarded ==
    (fed > 0 /\ START_MARKER \notin Range(lg_buffer[tx.name])) =>
        lg_buffer[tx.name] = <<>>

\* ------------------------------------------------------------------------
\* Properties of a poll cycle
\* ------------------------------------------------------------------------

\* the complete frames of a buffer: each from the first 0xDD to the first
\* 0x77 behind it, one after the other
RECURSIVE Candidates(_)
Candidates(buf) ==
    LET start == IndexFrom(buf, START_MARKER, 1) IN
    IF start = 0 THEN <<>>
    ELSE LET end == IndexFrom(buf, END_MARKER, start) IN
         IF end = 0 THEN <<>>
         ELSE <<SubSeq(buf, start, end)>> \o Candidates(SubSeq(buf, end + 1, Len(buf)))

\* C14: when a settle sleep of poll_monitor returns, a complete frame of the
\* requested type in the notification buffer is extracted and decoded, whatever
\* complete frames stand in front of it: a cell frame takes the cycle to the
\* cell update, a status frame that parse_status accepts is stored.
C14_EveryFrameDecoded ==
    [][\A d \in devices :
          /\ (/\ pc[d] = "sleep_10" /\ pc'[d] # "sleep_10"
              /\ \E c \in Range(Candidates(notify_buffer[d])) : c[2] = TYPE_CELLS) =>
                pc'[d] = "set_total"
          /\ (/\ pc[d] = "sleep_06" /\ pc'[d] # "sleep_06"
              /\ \E c \in Range(Candidates(notify_buffer[d])) : gui_parse_status(c).ok) =>
                /\ device_data'[d].status = "T1 T2"
                /\ device_data'[d].soc = 80]_vars

\* C15: last_update changes only in the status step of a poll cycle, and only
\* in a cycle that decoded a frame: the cell step of the cycle has parsed cell
\* voltages out of its packet, or the status step extracts a status frame that
\* parse_status accepts.
C15_LastUpdateOnlyOnDecode ==
    [][\A d \in devices :
          device_data'[d].last_update # device_data[d].last_update =>
              /\ pc[d] = "sleep_06"
              /\ \/ gui_parse_cell_voltages(packet[d]) # <<>>
                 \/ gui_parse_status(extract_packet(notify_buffer[d], TYPE_STATUS).packet).ok]_vars

\* C16: connected is true only while the session holds a link on which the
\* connect and the subscription have succeeded, that is between the return of
\* start_notify and the end of the async with block.
C16_ConnectedMeansSubscribed ==
    \A d \in devices :
        device_data[d].connected => pc[d] \in (Subscribed \cup {"set_total"})

\* the larger of two numbers
Max(a, b) == IF a >= b THEN a ELSE b

\* C18: after the cell update of a poll cycle that decoded N values, the
\* stored list has max(16, N) entries, the first N are the decoded values in
\* order and the others are 0; and at all times a stored list has at least
\* sixteen entries, none of them negative.
C18_StoredCellList ==
    \A d \in devices :
        /\ pc[d] = "set_total" =>
              \E v \in {gui_parse_cell_voltages(packet[d])} :
                  /\ Len(device_data[d].voltages) = Max(16, Len(v))
                  /\ \A i \in 1..Len(v) : device_data[d].voltages[i] = v[i]
                  /\ \A i \in (Len(v) + 1)..Len(device_data[d].voltages) :
                        device_data[d].voltages[i] = 0
        /\ Len(device_data[d].voltages) >= 16
        /\ \A i \in 1..Len(device_data[d].voltages) : device_data[d].voltages[i] >= 0

\* C18 witness: seventeen decoded cells are stored, none cut off.
C18_Witness ==
    \E d \in devices :
        /\ pc[d] = "set_total"
        /\ Len(gui_parse_cell_voltages(packet[d])) = 17
        /\ Len(device_data[d].voltages) = 17
        /\ device_data[d].voltages[17] = 3300

\* the awaits of poll_monitor that call the transport
TransportCalls == {"connect", "start_notify", "write_cells", "write_status", "stop_notify"}

\* C17: the step in which a connect, a subscribe, a write or stop_notify
\* raises leaves voltages, total, strom, soc, temp1, temp2 and last_update as
\* they were and sets connected false and the status string; when the CSV
\* append raises, the entry holds the list and the total of the decode just
\* done and the other fields as they were.
C17_FrozenOnFailure ==
    [][\A d \in devices :
          /\ (pc[d] \in TransportCalls /\ pc'[d] = "sleep_poll" /\ ~link[d]) =>
                /\ Measurement(d)' = Measurement(d)
                /\ device_data'[d].last_update = device_data[d].last_update
                /\ ~device_data'[d].connected
                /\ device_data'[d].status = "error"
          /\ (pc[d] = "set_total" /\ pc'[d] = "sleep_poll") =>
                /\ Measurement(d)' =
                      [Measurement(d) EXCEPT
                          !["total"] = SumSeq(gui_parse_cell_voltages(packet[d]))]
                /\ device_data'[d].voltages = StoredVoltages(gui_parse_cell_voltages(packet[d]))
                /\ device_data'[d].last_update = device_data[d].last_update
                /\ ~device_data'[d].connected
                /\ device_data'[d].status = "error"]_vars

\* C17 witness: a write has raised after a complete poll cycle; the entry is
\* marked disconnected and still holds the cells, the total, the status values
\* and the time of the last update.
C17_Witness ==
    \E d \in devices :
        /\ pc[d] = "sleep_poll"
        /\ device_data[d].status = "error"
        /\ ~device_data[d].connected
        /\ ~link[d]
        /\ device_data[d].voltages[1] = 3300
        /\ device_data[d].total = 6610
        /\ device_data[d].soc = 80
        /\ device_data[d].last_update # 0

\* ------------------------------------------------------------------------
\* Properties of the packets handle_notify cuts out
\* ------------------------------------------------------------------------

\* C19: when handle_notify has returned, the buffer holds no 0xDD with a 0x77
\* behind it; every packet ever cut out starts with 0xDD, ends with 0x77 and
\* holds no other 0x77; and the packets are, in order, the complete frames of
\* the bytes received so far (all of them when the last call returned).
C19_NoCandidateLeft ==
    /\ (fed > 0 /\ ~lg_raised) =>
          /\ ~ \E i \in 1..Len(lg_buffer[tx.name]) :
                 \E j \in (i + 1)..Len(lg_buffer[tx.name]) :
                     /\ lg_buffer[tx.name][i] = START_MARKER
                     /\ lg_buffer[tx.name][j] = END_MARKER
          /\ lg_packets[tx.name] = Candidates(SubSeq(Stream, 1, fed))
    /\ \A k \in 1..Len(lg_packets[tx.name]) :
          /\ lg_packets[tx.name][k][1] = START_MARKER
          /\ lg_packets[tx.name][k][Len(lg_packets[tx.name][k])] = END_MARKER
          /\ NoInnerEnd(lg_packets[tx.name][k])
          /\ k <= Len(Candidates(SubSeq(Stream, 1, fed)))
          /\ lg_packets[tx.name][k] = Candidates(SubSeq(Stream, 1, fed))[k]

\* C19 witness: garbage, a frame and a trailing DD 77 have arrived; the frame
\* and the DD 77 were cut out as packets and the buffer is empty.
C19_Witness ==
    /\ fed = Len(Stream)
    /\ ~lg_raised
    /\ tx.kind = "frame"
    /\ tx.garbage # <<>>
    /\ tx.trailer = <<START_MARKER, END_MARKER>>
    /\ Len(lg_packets[tx.name]) >= 2
    /\ lg_packets[tx.name][Len(lg_packets[tx.name])] = tx.trailer
    /\ lg_buffer[tx.name] = <<>>

\* ------------------------------------------------------------------------
\* Properties of the shutdown
\* ------------------------------------------------------------------------

=============================================================================
